---- MODULE Spec2Model ----
(***************************************************************************)
(* The asynchronous analysis pipeline of celo-hackathon-agent, followed    *)
(* for one analysis task: its row in analysis_tasks, its row in reports,   *)
(* its RQ job, the worker processes that run analyze_repository for it and *)
(* the API requests cancel_task / delete_task that run concurrently with   *)
(* them.  Every statement of the code is scoped by the task id (WHERE id = *)
(* task_id, job_id = task_id), so other tasks do not touch this state.     *)
(*                                                                         *)
(* The store is the committed content of the tables analysis_tasks and     *)
(* reports: what a concurrent reader sees.  A worker or an API request     *)
(* holds its own ORM copy of a row; a commit writes the attributes that    *)
(* changed in that copy, and only those.                                   *)
(*                                                                         *)
(* Spec follows the task from its submission.  SpecFair is Spec with the  *)
(* worker processes kept running.  SpecReEnqueue adds a second enqueue of  *)
(* the same task id.  SpecCrashRetry adds a worker that dies in the middle *)
(* of a run, whose job is then run again.  SpecStoreFailure adds a failure *)
(* handler that cannot reach the store.  SpecPublish follows the           *)
(* publication of the report from the state a successful run leaves        *)
(* behind.  SpecExtract runs the Score Extractor alone on sample texts.    *)
(***************************************************************************)
EXTENDS Integers, Sequences, FiniteSets, TLC

\* ---------------------------------------------------------------- bounds
NumWorkers == 2
NumClients == 1
MaxEnqueues == 2
NumPublishers == 2
MaxPublishes == 2
MaxLines == 2

\* ------------------------------------------------------ program constants
MAX_RETRIES == 3

TaskId == "task-1"
Workers == 1..NumWorkers
Clients == 1..NumClients
Publishers == 1..NumPublishers

\* ------------------------------------------------------------- Task Record
\* The user the task was submitted by (AnalysisTask.user_id, set at
\* creation and never assigned again) and the users requests come from.
Owner == "user-1"
Users == {"user-1", "user-2"}

NULL == "null"
NoTask == [status |-> "absent", progress |-> 0, error_message |-> NULL, completed_at |-> NULL]
\* ipfs_hash and published_at are <<>> while the report was never published;
\* then ipfs_hash is the CID and published_at is <<n>>, set by the n-th write
\* of a publication.
Unset == <<>>
NoReport == [id |-> NULL, task_id |-> NULL, text |-> 0, scores |-> {},
             ipfs_hash |-> Unset, published_at |-> Unset]

\* What a publish request gives its caller: an HTTP status and, with 200,
\* the ipfs_hash and published_at of the ReportSummary.
Response(code, hash, at) == [code |-> code, ipfs_hash |-> hash, published_at |-> at]
NoResponse == Response("none", Unset, Unset)

Terminal == {"completed", "failed"}

\* error messages the code writes into error_message
CanceledByUser == "Canceled by user"
FetchFailed == "Failed to fetch repository"
FetchContentFailed == "Failed to fetch repository content"
KeyNotConfigured == "GOOGLE_API_KEY is not configured"
LLMFailed == "LLM analysis failed"
StaleDataError == "StaleDataError"
IntegrityError == "IntegrityError"
StoreUnreachable == "store unreachable"

NoAnalysis == 0

\* what fetch_single_repository can hand back
FetchResults == {"raises", "no_data", "empty_content", "error_content", "content"}
FetchRaised == "fetcher raised"

\* --------------------------------------------------------- Score Extractor
\* A text is a sequence of lines, a line a sequence of tokens: a word of the
\* lower-cased text, or a number literal \d+(\.\d+)? given in tenths (80 is
\* "8", 75 is "7.5").  The patterns use '.', which does not cross a line end.
W(s) == [k |-> "w", w |-> s, n |-> 0]
N(x) == [k |-> "n", w |-> "", n |-> x]

\* The texts the Analysis Adapter is taken to return.
TextNoScores == << <<W("the"), W("repository"), W("is"), W("fine")>> >>
TextTable == << <<W("security"), W("|"), N(80), W("/"), N(100), W("|")>>,
                <<W("readability"), W("|"), N(60), W("/"), N(100), W("|")>>,
                <<W("overall"), W("|"), N(70), W("/"), N(100), W("|")>> >>
TextOverallScore == << <<W("code"), W("quality"), W(":"), N(80), W("/"), N(100)>>,
                       <<W("overall"), W("score"), W(":"), N(75), W("/"), N(100)>> >>
TextError == << <<W("error"), W(":"), W("quota"), W("exceeded")>> >>
Texts == <<TextNoScores, TextTable, TextOverallScore, TextError>>
ErrorTextId == Len(Texts)
AdapterTexts == 1..(Len(Texts) - 1)

\* worker.py patterns: per category, the regexes in order; a regex is its
\* literal words, each followed by '.*?', and then the captured number.
Categories == <<"overall", "code_quality", "maintainability", "documentation", "performance">>
patterns == [overall |-> << <<"overall", "score">>, <<"total", "score">>, <<"final", "score">> >>,
             code_quality |-> << <<"code", "quality">>, <<"quality", "score">> >>,
             maintainability |-> << <<"maintainability">>, <<"maintenance">> >>,
             documentation |-> << <<"documentation">>, <<"docs", "score">> >>,
             performance |-> << <<"performance">>, <<"speed", "score">> >>]

\* Position of the first token of line after position from that satisfies
\* the test, 0 when there is none.
FirstWord(line, from, word) ==
    LET hits == {i \in (from + 1)..Len(line) : line[i].k = "w" /\ line[i].w = word}
    IN IF hits = {} THEN 0 ELSE CHOOSE i \in hits : \A j \in hits : i <= j
FirstNumber(line, from) ==
    LET hits == {i \in (from + 1)..Len(line) : line[i].k = "n"}
    IN IF hits = {} THEN 0 ELSE CHOOSE i \in hits : \A j \in hits : i <= j

\* Position in line of the number a regex captures, 0 when the line has no
\* match: the leftmost first word, each next word lazily after it, then the
\* first number.
RECURSIVE MatchFrom(_, _, _, _)
MatchFrom(line, words, k, from) ==
    IF k > Len(words) THEN FirstNumber(line, from)
    ELSE LET p == FirstWord(line, from, words[k])
         IN IF p = 0 THEN 0 ELSE MatchFrom(line, words, k + 1, p)

\* re.findall(pattern, text_lower): the captured numbers, line by line (one
\* per line suffices here: only matches[0] is used).
RECURSIVE findall(_, _, _)
findall(words, text, i) ==
    IF i > Len(text) THEN <<>>
    ELSE LET p == MatchFrom(text[i], words, 1, 0)
         IN (IF p = 0 THEN <<>> ELSE <<text[i][p].n>>) \o findall(words, text, i + 1)

\* The inner loop over pattern_list: the first pattern with a match decides.
RECURSIVE FirstPattern(_, _, _)
FirstPattern(pattern_list, text, i) ==
    IF i > Len(pattern_list) THEN <<>>
    ELSE LET matches == findall(pattern_list[i], text, 1)
         IN IF matches /= <<>> THEN <<matches[1]>> ELSE FirstPattern(pattern_list, text, i + 1)

\* extract_scores_from_markdown: the scores mapping as a set of
\* <<category, value>> pairs; a category without a match gets no entry.
extract_scores_from_markdown(text) ==
    {<<Categories[c], FirstPattern(patterns[Categories[c]], text, 1)[1]>> :
        c \in {d \in 1..Len(Categories) : FirstPattern(patterns[Categories[d]], text, 1) /= <<>>}}

HasKey(m, key) == \E e \in m : e[1] = key

\* The lines the texts handed to the Score Extractor on its own are made of,
\* and those texts: every sequence of at most MaxLines of them.
SampleLines == {
    <<W("security"), W("|"), N(80), W("/"), N(100), W("|")>>,
    <<W("readability"), W("|"), N(60), W("/"), N(100), W("|")>>,
    <<W("overall"), W("|"), N(70), W("/"), N(100), W("|")>>,
    <<W("code"), W("quality"), W(":"), N(40), W("/"), N(100)>>,
    <<W("documentation"), W(":"), N(60), W("/"), N(100)>>,
    <<W("overall"), W("score"), W(":"), N(75), W("/"), N(100)>>,
    <<W("total"), W("score"), N(90)>>,
    <<W("the"), W("repository"), W("is"), W("fine")>> }
SampleTexts == UNION {[1..n -> SampleLines] : n \in 0..MaxLines}

VARIABLES
    task,         \* the task's row in analysis_tasks, NoTask when there is none
    report,       \* the task's row in reports, NoReport when there is none
    submitted,    \* submit_analysis has created the task (its id is never reused)
    enqueuing,    \* submit_analysis has committed the row and not yet enqueued it
    enqueued,     \* how many times enqueue_analysis ran for the task id
    queue,        \* the RQ list "analysis": job ids waiting for a worker
    job_status,   \* the status in the RQ job hash kept under the task id
    api_key,      \* settings.GOOGLE_API_KEY is configured
    sresult,      \* what submit_analysis gave its caller: the task, or an error
    pc,           \* per worker: position in analyze_repository_async
    mem,          \* per worker: its ORM copy of the task row
    fetched,      \* per worker: what fetch_single_repository returned
    retry_count,  \* per worker: retry_count of analyze_single_repository
    llm_calls,    \* per worker: chain.invoke calls made in this run
    analysis,     \* per worker: what analyze_single_repository returned
    exc,          \* per worker: the message of the exception being handled
    cpc,          \* per API request slot: position in cancel_task / delete_task
    cmem,         \* per API request slot: its ORM copy of the task row
    job_canceled, \* per API request slot: what cancel_job returned
    cresult,      \* per API request slot: what the last request returned
    cuser,        \* per API request slot: the user id the last request came with
    ppc,          \* per publish request slot: position in publish_report
    presult,      \* per publish request slot: what the last request returned
    publishes,    \* how many requests went on to publish_to_ipfs
    clock,        \* how many publications were written
    epc,          \* the Score Extractor called on its own: "call", "return"
    markdown_text, \* its argument
    scores        \* what it returned

wvars == <<pc, mem, fetched, retry_count, llm_calls, analysis, exc>>
cvars == <<cpc, cmem, job_canceled, cresult, cuser>>
pvars == <<ppc, presult, publishes, clock>>
evars == <<epc, markdown_text, scores>>
vars == <<task, report, submitted, enqueuing, enqueued, queue, job_status, api_key, sresult,
          pc, mem, fetched, retry_count, llm_calls, analysis, exc,
          cpc, cmem, job_canceled, cresult, cuser,
          ppc, presult, publishes, clock,
          epc, markdown_text, scores>>

\* ------------------------------------------------------------ ORM commit
\* The attributes of an ORM copy that were assigned a different value since
\* the copy was loaded or last committed.
Dirty(old, new) == {f \in DOMAIN new : new[f] /= old[f]}

\* The row after the UPDATE a commit emits: the dirty attributes are written,
\* the others keep what the store holds.
Flush(row, old, new) == [f \in DOMAIN row |-> IF f \in Dirty(old, new) THEN new[f] ELSE row[f]]

\* A commit emits an UPDATE when some attribute is dirty; the UPDATE matches
\* no row when the row was deleted, which the ORM raises as StaleDataError.
CommitFails_Never(row, old, new) == FALSE
CommitFails(row, old, new) == Dirty(old, new) /= {} /\ row = NoTask

Init ==
    /\ task = NoTask
    /\ report = NoReport
    /\ submitted = FALSE
    /\ enqueuing = FALSE
    /\ enqueued = 0
    /\ queue = <<>>
    /\ job_status = "none"
    /\ api_key \in BOOLEAN
    /\ sresult = NULL
    /\ pc = [w \in Workers |-> "idle"]
    /\ mem = [w \in Workers |-> NoTask]
    /\ fetched = [w \in Workers |-> "none"]
    /\ retry_count = [w \in Workers |-> 0]
    /\ llm_calls = [w \in Workers |-> 0]
    /\ analysis = [w \in Workers |-> NoAnalysis]
    /\ exc = [w \in Workers |-> NULL]
    /\ cpc = [c \in Clients |-> "idle"]
    /\ cmem = [c \in Clients |-> NoTask]
    /\ job_canceled = [c \in Clients |-> FALSE]
    /\ cresult = [c \in Clients |-> NULL]
    /\ cuser = [c \in Clients |-> NULL]
    /\ ppc = [p \in Publishers |-> "idle"]
    /\ presult = [p \in Publishers |-> NoResponse]
    /\ publishes = 0
    /\ clock = 0
    /\ epc = "idle"
    /\ markdown_text = <<>>
    /\ scores = {}

\* ------------------------------------------------------------ submission
\* analysis.py 58-71, submit_analysis, first half: the row is created
\* pending with progress 0 and committed.
submit_analysis ==
    /\ ~submitted
    /\ submitted' = TRUE
    /\ task' = [status |-> "pending", progress |-> 0,
                error_message |-> NULL, completed_at |-> NULL]
    /\ enqueuing' = TRUE
    /\ UNCHANGED <<report, enqueued, queue, job_status, api_key, sresult>>
    /\ UNCHANGED wvars
    /\ UNCHANGED cvars
    /\ UNCHANGED pvars
    /\ UNCHANGED evars

\* queue.py 38-44: queue.enqueue(..., job_id=task_id) saves the job hash
\* under the task id with status queued and pushes the id on the list,
\* whether or not a job with that id is already there.
QueueEnqueue ==
    /\ job_status' = "queued"
    /\ queue' = Append(queue, TaskId)
    /\ enqueued' = enqueued + 1

\* queue.py 38-44 when Redis cannot be reached: queue.enqueue raises before
\* anything is stored in the queue.
QueueUnreachable_Pushes == QueueEnqueue
QueueUnreachable == UNCHANGED <<job_status, queue, enqueued>>

\* analysis.py 73-79, submit_analysis, second half: the task id is enqueued
\* and the task returned; an exception of enqueue_analysis leaves
\* submit_analysis as it is, with the row committed before.
enqueue_analysis ==
    /\ enqueuing
    /\ enqueuing' = FALSE
    /\ \/ QueueEnqueue /\ sresult' = "task"
       \/ QueueUnreachable /\ sresult' = "error"
    /\ UNCHANGED <<task, report, submitted, api_key>>
    /\ UNCHANGED wvars
    /\ UNCHANGED cvars
    /\ UNCHANGED pvars
    /\ UNCHANGED evars

\* ---------------------------------------------------------------- worker
Locals(w, p, m, f, r, l, a, e) ==
    /\ pc' = [pc EXCEPT ![w] = p]
    /\ mem' = [mem EXCEPT ![w] = m]
    /\ fetched' = [fetched EXCEPT ![w] = f]
    /\ retry_count' = [retry_count EXCEPT ![w] = r]
    /\ llm_calls' = [llm_calls EXCEPT ![w] = l]
    /\ analysis' = [analysis EXCEPT ![w] = a]
    /\ exc' = [exc EXCEPT ![w] = e]

\* worker.py 255-264: analyze_repository returns to RQ, which marks the job
\* finished; the locals of the run are gone.
Return(w) ==
    /\ Locals(w, "idle", NoTask, "none", 0, 0, NoAnalysis, NULL)
    /\ job_status' = "finished"

\* An exception reaches the outer handler of analyze_repository_async.
Raise(w, message) ==
    /\ pc' = [pc EXCEPT ![w] = "handler"]
    /\ exc' = [exc EXCEPT ![w] = message]

\* src/worker.py 77-80, worker.work(): an idle worker pops the next job id
\* and starts the job.
Dequeue(w) ==
    /\ pc[w] = "idle"
    /\ queue /= <<>>
    /\ queue' = Tail(queue)
    /\ job_status' = "started"
    /\ Locals(w, "claim", NoTask, "none", 0, 0, NoAnalysis, NULL)
    /\ UNCHANGED <<task, report, submitted, enqueuing, enqueued, api_key, sresult>>
    /\ UNCHANGED cvars
    /\ UNCHANGED pvars
    /\ UNCHANGED evars

\* Lines 52-62: load the task; return when it is gone; otherwise set
\* in_progress / 10 and commit.
Claimed_50(row) == [row EXCEPT !.status = "in_progress", !.progress = 50]
Claimed_Progress0(row) == [row EXCEPT !.status = "in_progress", !.progress = 0]
Claimed_KeepsProgress(row) == [row EXCEPT !.status = "in_progress"]
Claimed(row) == [row EXCEPT !.status = "in_progress", !.progress = 10]
TaskMissing_Never(row) == FALSE
TaskMissing(row) == row = NoTask
Claim(w) ==
    /\ pc[w] = "claim"
    /\ IF TaskMissing(task)
       THEN /\ Return(w)
            /\ UNCHANGED task
       ELSE /\ task' = Flush(task, task, Claimed(task))
            /\ pc' = [pc EXCEPT ![w] = "fetch"]
            /\ mem' = [mem EXCEPT ![w] = Claimed(task)]
            /\ UNCHANGED <<job_status, fetched, retry_count, llm_calls, analysis, exc>>
    /\ UNCHANGED <<report, submitted, enqueuing, enqueued, queue, api_key, sresult>>
    /\ UNCHANGED cvars
    /\ UNCHANGED pvars
    /\ UNCHANGED evars

\* Lines 65-93: the fetch returns; no data or empty content raises; otherwise
\* progress 40 is committed.
FetchRejected_Never(r) == FALSE
FetchRejected(r) == r \in {"no_data", "empty_content"}
Fetch(w) ==
    /\ pc[w] = "fetch"
    /\ \E r \in FetchResults :
        LET new == [mem[w] EXCEPT !.progress = 40]
        IN /\ fetched' = [fetched EXCEPT ![w] = r]
           /\ IF r = "raises"
              THEN Raise(w, FetchRaised) /\ UNCHANGED <<task, mem>>
              ELSE IF FetchRejected(r)
              THEN Raise(w, FetchFailed) /\ UNCHANGED <<task, mem>>
              ELSE IF CommitFails(task, mem[w], new)
              THEN Raise(w, StaleDataError) /\ UNCHANGED <<task, mem>>
              ELSE /\ task' = Flush(task, mem[w], new)
                   /\ mem' = [mem EXCEPT ![w] = new]
                   /\ pc' = [pc EXCEPT ![w] = "analyze"]
                   /\ UNCHANGED exc
    /\ UNCHANGED <<retry_count, llm_calls, analysis>>
    /\ UNCHANGED <<report, submitted, enqueuing, enqueued, queue, job_status, api_key, sresult>>
    /\ UNCHANGED cvars
    /\ UNCHANGED pvars
    /\ UNCHANGED evars

\* Lines 97-155 and analyzer.py 183-198: the digest check, the credential
\* check, the commit of analysis_type (the value the row already holds, so
\* no UPDATE), then analyze_single_repository loads the prompt and builds
\* the chain, either of which may raise.
DigestRejected_EmptyOnly(r) == r = "empty_content"
DigestRejected(r) == r \in {"empty_content", "error_content"}
KeyMissing_Never(key) == FALSE
KeyMissing(key) == ~key
Analyze(w) ==
    /\ pc[w] = "analyze"
    /\ IF DigestRejected(fetched[w])
       THEN Raise(w, FetchContentFailed)
       ELSE IF KeyMissing(api_key)
       THEN Raise(w, KeyNotConfigured)
       ELSE \/ Raise(w, LLMFailed)
            \/ pc' = [pc EXCEPT ![w] = "invoke"] /\ UNCHANGED exc
    /\ UNCHANGED <<mem, fetched, retry_count, llm_calls, analysis>>
    /\ UNCHANGED <<task, report, submitted, enqueuing, enqueued, queue, job_status, api_key, sresult>>
    /\ UNCHANGED cvars
    /\ UNCHANGED pvars
    /\ UNCHANGED evars

\* Lines 171-179: the analysis is there; progress 80 is committed.
Progress80(w, text) ==
    LET new == [mem[w] EXCEPT !.progress = 80]
    IN /\ analysis' = [analysis EXCEPT ![w] = text]
       /\ IF CommitFails(task, mem[w], new)
          THEN Raise(w, StaleDataError) /\ UNCHANGED <<task, mem>>
          ELSE /\ task' = Flush(task, mem[w], new)
               /\ mem' = [mem EXCEPT ![w] = new]
               /\ pc' = [pc EXCEPT ![w] = "persist"]
               /\ UNCHANGED exc

\* analyzer.py 200-238: one pass of the retry loop.  chain.invoke returns a
\* text, which is returned at once; or it raises: retry_count is incremented
\* and, at MAX_RETRIES, the string "Error: ..." is returned.
Exhausted_OneMore(r) == r > MAX_RETRIES
Exhausted(r) == r >= MAX_RETRIES
Invoke(w) ==
    /\ pc[w] = "invoke"
    /\ ~Exhausted(retry_count[w])
    /\ llm_calls' = [llm_calls EXCEPT ![w] = @ + 1]
    /\ \/ \E x \in AdapterTexts :
            /\ Progress80(w, x)
            /\ UNCHANGED retry_count
       \/ /\ retry_count' = [retry_count EXCEPT ![w] = @ + 1]
          /\ IF ~Exhausted(retry_count[w] + 1)
             THEN UNCHANGED <<task, mem, pc, exc, analysis>>
             ELSE Progress80(w, ErrorTextId)
    /\ UNCHANGED fetched
    /\ UNCHANGED <<report, submitted, enqueuing, enqueued, queue, job_status, api_key, sresult>>
    /\ UNCHANGED cvars
    /\ UNCHANGED pvars
    /\ UNCHANGED evars

\* Lines 182-230: the scores are extracted, the report is added with the
\* task's id, the task is set completed / 100 / completed_at, and all of it
\* is committed in one transaction: the UPDATE of a deleted task or the
\* INSERT of a second report for the task fails the commit and nothing of
\* it is stored.
NewReport(text) ==
    [id |-> TaskId, task_id |-> TaskId, text |-> text,
     scores |-> extract_scores_from_markdown(Texts[text]),
     ipfs_hash |-> Unset, published_at |-> Unset]
Completed_NoStatus(row) == [row EXCEPT !.progress = 100, !.completed_at = "set"]
Completed(row) == [row EXCEPT !.status = "completed", !.progress = 100, !.completed_at = "set"]
Persist(w) ==
    /\ pc[w] = "persist"
    /\ IF CommitFails(task, mem[w], Completed(mem[w]))
       THEN /\ Raise(w, StaleDataError)
            /\ UNCHANGED <<task, report, job_status, mem, fetched, retry_count, llm_calls, analysis>>
       ELSE IF report /= NoReport
       THEN /\ Raise(w, IntegrityError)
            /\ UNCHANGED <<task, report, job_status, mem, fetched, retry_count, llm_calls, analysis>>
       ELSE /\ task' = Flush(task, mem[w], Completed(mem[w]))
            /\ report' = NewReport(analysis[w])
            /\ Return(w)
    /\ UNCHANGED <<submitted, enqueuing, enqueued, queue, api_key, sresult>>
    /\ UNCHANGED cvars
    /\ UNCHANGED pvars
    /\ UNCHANGED evars

\* Lines 235-243: the handler selects the task again; if it is gone the run
\* ends.  The select hands back the copy the session already holds,
\* unrefreshed, unless a failed commit rolled the session back and expired it.
HandlerCopy(w) == IF exc[w] \in {StaleDataError, IntegrityError} THEN task ELSE mem[w]
Handler(w) ==
    /\ pc[w] = "handler"
    /\ IF task = NoTask
       THEN Return(w)
       ELSE /\ pc' = [pc EXCEPT ![w] = "handler_commit"]
            /\ mem' = [mem EXCEPT ![w] = HandlerCopy(w)]
            /\ UNCHANGED <<job_status, fetched, retry_count, llm_calls, analysis, exc>>
    /\ UNCHANGED <<task, report, submitted, enqueuing, enqueued, queue, api_key, sresult>>
    /\ UNCHANGED cvars
    /\ UNCHANGED pvars
    /\ UNCHANGED evars

\* Lines 244-249: failed and the exception's message are set and committed;
\* a commit that fails is logged and swallowed.  Lines 255-264: the run
\* returns to the queue normally.
Failed_MessageOnly(row, message) == [row EXCEPT !.error_message = message]
Failed(row, message) == [row EXCEPT !.status = "failed", !.error_message = message]
HandlerCommit(w) ==
    /\ pc[w] = "handler_commit"
    /\ IF CommitFails(task, mem[w], Failed(mem[w], exc[w]))
       THEN UNCHANGED task
       ELSE task' = Flush(task, mem[w], Failed(mem[w], exc[w]))
    /\ Return(w)
    /\ UNCHANGED <<report, submitted, enqueuing, enqueued, queue, api_key, sresult>>
    /\ UNCHANGED cvars
    /\ UNCHANGED pvars
    /\ UNCHANGED evars

\* ------------------------------------------------------------ API requests
Request(c, p, m, j, r) ==
    /\ cpc' = [cpc EXCEPT ![c] = p]
    /\ cmem' = [cmem EXCEPT ![c] = m]
    /\ job_canceled' = [job_canceled EXCEPT ![c] = j]
    /\ cresult' = [cresult EXCEPT ![c] = r]

\* The request returns r to its caller; its locals are gone.
Respond(c, r) == Request(c, "idle", NoTask, FALSE, r)

\* queue.py 72-88, QueueService.cancel_job.  Lines 82-85: the job is fetched
\* and its status read; a job that is missing or not queued ends the call
\* with False and is left alone.  Lines 87-88: job.cancel() marks the job
\* canceled and takes one occurrence of its id off the list (it does not
\* stop a worker that popped the id in between), and the call ends with True.
RECURSIVE RemoveFirst(_, _)
RemoveFirst(q, id) ==
    IF q = <<>> THEN <<>>
    ELSE IF Head(q) = id THEN Tail(q)
    ELSE <<Head(q)>> \o RemoveFirst(Tail(q), id)
Cancellable(status) == status = "queued"
cancel_job(c, cancelling, done) ==
    /\ IF Cancellable(job_status)
       THEN cpc' = [cpc EXCEPT ![c] = cancelling]
       ELSE cpc' = [cpc EXCEPT ![c] = done]
    /\ job_canceled' = [job_canceled EXCEPT ![c] = FALSE]
    /\ UNCHANGED <<job_status, queue>>
job_cancel(c, done) ==
    /\ job_status' = "canceled"
    /\ queue' = RemoveFirst(queue, TaskId)
    /\ job_canceled' = [job_canceled EXCEPT ![c] = TRUE]
    /\ cpc' = [cpc EXCEPT ![c] = done]

\* analysis.py 106-122, AnalysisService.get_task: the row with this id and
\* this user_id, or None.
get_task_AnyUser(row, user_id) == row
get_task(row, user_id) == IF row /= NoTask /\ user_id = Owner THEN row ELSE NoTask

\* routers/analysis.py 137-177, get_analysis_task: the status of the task,
\* or 404 when get_task found none.
GetTask(c) ==
    /\ cpc[c] = "idle"
    /\ submitted
    /\ \E u \in Users :
        /\ cuser' = [cuser EXCEPT ![c] = u]
        /\ IF get_task(task, u) = NoTask
           THEN Respond(c, "None")
           ELSE Respond(c, "found")
    /\ UNCHANGED <<task, report, submitted, enqueuing, enqueued, queue, job_status, api_key, sresult>>
    /\ UNCHANGED wvars
    /\ UNCHANGED pvars
    /\ UNCHANGED evars

\* analysis.py 135-142: cancel_task loads the task; a missing or terminal
\* task ends the request with None.
CancelGet(c) ==
    /\ cpc[c] = "idle"
    /\ submitted
    /\ \E u \in Users :
        LET row == get_task(task, u)
        IN /\ cuser' = [cuser EXCEPT ![c] = u]
           /\ IF row = NoTask \/ row.status \in Terminal
              THEN Respond(c, "None")
              ELSE Request(c, "cancel_job", row, FALSE, NULL)
    /\ UNCHANGED <<task, report, submitted, enqueuing, enqueued, queue, job_status, api_key, sresult>>
    /\ UNCHANGED wvars
    /\ UNCHANGED pvars
    /\ UNCHANGED evars

\* analysis.py 144-145 and queue.py 82-85: cancel_task asks the queue to
\* cancel the job; cancel_job reads the job's status.
CancelJob(c) ==
    /\ cpc[c] = "cancel_job"
    /\ cancel_job(c, "cancel_job_cancel", "cancel_commit")
    /\ UNCHANGED <<cmem, cresult, cuser>>
    /\ UNCHANGED <<task, report, submitted, enqueuing, enqueued, api_key, sresult>>
    /\ UNCHANGED wvars
    /\ UNCHANGED pvars
    /\ UNCHANGED evars

\* queue.py 87-88 under cancel_task: the job found queued is cancelled.
CancelJobCancel(c) ==
    /\ cpc[c] = "cancel_job_cancel"
    /\ job_cancel(c, "cancel_commit")
    /\ UNCHANGED <<cmem, cresult, cuser>>
    /\ UNCHANGED <<task, report, submitted, enqueuing, enqueued, api_key, sresult>>
    /\ UNCHANGED wvars
    /\ UNCHANGED pvars
    /\ UNCHANGED evars

\* analysis.py 147-157: whatever cancel_job returned, the task is set failed
\* with "Canceled by user", committed and returned.  The UPDATE of a row
\* deleted in the meantime raises out of the request.
CancelCommit(c) ==
    /\ cpc[c] = "cancel_commit"
    /\ IF CommitFails(task, cmem[c], Failed(cmem[c], CanceledByUser))
       THEN Respond(c, "error") /\ UNCHANGED task
       ELSE /\ task' = Flush(task, cmem[c], Failed(cmem[c], CanceledByUser))
            /\ Respond(c, "task")
    /\ UNCHANGED cuser
    /\ UNCHANGED <<report, submitted, enqueuing, enqueued, queue, job_status, api_key, sresult>>
    /\ UNCHANGED wvars
    /\ UNCHANGED pvars
    /\ UNCHANGED evars

\* analysis.py 170-176: delete_task loads the task; a missing task ends the
\* request with False; the job of a pending or in_progress task is to be
\* cancelled first.
DeleteGet(c) ==
    /\ cpc[c] = "idle"
    /\ submitted
    /\ \E u \in Users :
        LET row == get_task(task, u)
        IN /\ cuser' = [cuser EXCEPT ![c] = u]
           /\ IF row = NoTask
              THEN Respond(c, "False")
              ELSE IF row.status \in {"pending", "in_progress"}
              THEN Request(c, "delete_job", row, FALSE, NULL)
              ELSE Request(c, "delete_commit", row, FALSE, NULL)
    /\ UNCHANGED <<task, report, submitted, enqueuing, enqueued, queue, job_status, api_key, sresult>>
    /\ UNCHANGED wvars
    /\ UNCHANGED pvars
    /\ UNCHANGED evars

\* analysis.py 177 and queue.py 82-85: delete_task asks the queue to cancel
\* the job; cancel_job reads the job's status.
DeleteJob(c) ==
    /\ cpc[c] = "delete_job"
    /\ cancel_job(c, "delete_job_cancel", "delete_commit")
    /\ UNCHANGED <<cmem, cresult, cuser>>
    /\ UNCHANGED <<task, report, submitted, enqueuing, enqueued, api_key, sresult>>
    /\ UNCHANGED wvars
    /\ UNCHANGED pvars
    /\ UNCHANGED evars

\* queue.py 87-88 under delete_task: the job found queued is cancelled.
DeleteJobCancel(c) ==
    /\ cpc[c] = "delete_job_cancel"
    /\ job_cancel(c, "delete_commit")
    /\ UNCHANGED <<cmem, cresult, cuser>>
    /\ UNCHANGED <<task, report, submitted, enqueuing, enqueued, api_key, sresult>>
    /\ UNCHANGED wvars
    /\ UNCHANGED pvars
    /\ UNCHANGED evars

\* analysis.py 179-185: the task is deleted, and its report with it
\* (models.py 56: cascade "all, delete-orphan"), and True is returned.
Cascade_Keeps(r) == r
Cascade(r) == NoReport
DeleteCommit(c) ==
    /\ cpc[c] = "delete_commit"
    /\ task' = NoTask
    /\ report' = Cascade(report)
    /\ Respond(c, "True")
    /\ UNCHANGED cuser
    /\ UNCHANGED <<submitted, enqueuing, enqueued, queue, job_status, api_key, sresult>>
    /\ UNCHANGED wvars
    /\ UNCHANGED pvars
    /\ UNCHANGED evars

\* ------------------------------------------------------------ publication
\* ipfs.py 39-50, IPFSService.publish_to_ipfs: the CID is derived from the
\* content alone; within one API process the same content gives the same CID.
placeholder_cid(text) == <<"QmPlaceholder", text>>

\* reports.py 325: the report has been published already.
AlreadyPublished_Never(r) == FALSE
AlreadyPublished(r) == r.ipfs_hash /= Unset

ReportSummary(r) == Response("200", r.ipfs_hash, r.published_at)

\* reports.py 312-337, publish_report, first half: the report is loaded; a
\* missing report is a 404; a report that has a hash is returned as it is.
PublishGet(p) ==
    /\ ppc[p] = "idle"
    /\ submitted
    /\ IF report = NoReport
       THEN /\ presult' = [presult EXCEPT ![p] = Response("404", Unset, Unset)]
            /\ UNCHANGED <<ppc, publishes>>
       ELSE IF AlreadyPublished(report)
       THEN /\ presult' = [presult EXCEPT ![p] = ReportSummary(report)]
            /\ UNCHANGED <<ppc, publishes>>
       ELSE /\ publishes < MaxPublishes
            /\ publishes' = publishes + 1
            /\ ppc' = [ppc EXCEPT ![p] = "publish"]
            /\ presult' = [presult EXCEPT ![p] = NoResponse]
    /\ UNCHANGED <<task, report, submitted, enqueuing, enqueued, queue, job_status, api_key, sresult>>
    /\ UNCHANGED clock
    /\ UNCHANGED evars
    /\ UNCHANGED wvars
    /\ UNCHANGED cvars

\* reports.py 340-353 and report.py 225-265, publish_to_ipfs: the IPFS service
\* returns a CID or nothing.  With nothing, nothing is written; with a CID,
\* ipfs_hash and published_at are set and committed (the UPDATE of a report
\* deleted in the meantime raises out of the request).  The summary of the
\* request's copy is returned.
Published_HashOnly(r, at) == [r EXCEPT !.ipfs_hash = placeholder_cid(r.text)]
Published(r, at) == [r EXCEPT !.ipfs_hash = placeholder_cid(r.text), !.published_at = <<at>>]
PublishCommit(p) ==
    /\ ppc[p] = "publish"
    /\ ppc' = [ppc EXCEPT ![p] = "idle"]
    /\ \/ /\ presult' = [presult EXCEPT ![p] = Response("500", Unset, Unset)]
          /\ report = NoReport
          /\ UNCHANGED <<report, clock>>
       \/ /\ report /= NoReport
          /\ presult' = [presult EXCEPT ![p] = Response("200", Unset, Unset)]
          /\ UNCHANGED <<report, clock>>
       \/ /\ report /= NoReport
          /\ report' = Published(report, clock + 1)
          /\ clock' = clock + 1
          /\ presult' = [presult EXCEPT ![p] = ReportSummary(Published(report, clock + 1))]
    /\ UNCHANGED <<task, submitted, enqueuing, enqueued, queue, job_status, api_key, sresult>>
    /\ UNCHANGED publishes
    /\ UNCHANGED evars
    /\ UNCHANGED wvars
    /\ UNCHANGED cvars

\* ------------------------------------------------------------------- Next
Next ==
    \/ submit_analysis
    \/ enqueue_analysis
    \/ \E w \in Workers : Dequeue(w)
    \/ \E w \in Workers : Claim(w)
    \/ \E w \in Workers : Fetch(w)
    \/ \E w \in Workers : Analyze(w)
    \/ \E w \in Workers : Invoke(w)
    \/ \E w \in Workers : Persist(w)
    \/ \E w \in Workers : Handler(w)
    \/ \E w \in Workers : HandlerCommit(w)
    \/ \E c \in Clients : GetTask(c)
    \/ \E c \in Clients : CancelGet(c)
    \/ \E c \in Clients : CancelJob(c)
    \/ \E c \in Clients : CancelJobCancel(c)
    \/ \E c \in Clients : CancelCommit(c)
    \/ \E c \in Clients : DeleteGet(c)
    \/ \E c \in Clients : DeleteJob(c)
    \/ \E c \in Clients : DeleteJobCancel(c)
    \/ \E c \in Clients : DeleteCommit(c)

Spec == Init /\ [][Next]_vars

\* src/worker.py 77-80 and worker.py 32-264: a worker process that is running
\* keeps running: it pops a job when there is one and executes the next
\* statement of the run it is in; the adapters return.
WorkerStep(w) ==
    \/ Dequeue(w)
    \/ Claim(w)
    \/ Fetch(w)
    \/ Analyze(w)
    \/ Invoke(w)
    \/ Persist(w)
    \/ Handler(w)
    \/ HandlerCommit(w)

SpecFair == Init /\ [][Next]_vars /\ \A w \in Workers : WF_vars(WorkerStep(w))

\* queue.py 21-46: enqueue_analysis called again for a task id that was
\* enqueued before.
ReEnqueue ==
    /\ task /= NoTask
    /\ ~enqueuing
    /\ enqueued >= 1
    /\ enqueued < MaxEnqueues
    /\ QueueEnqueue
    /\ UNCHANGED <<task, report, submitted, enqueuing, api_key, sresult>>
    /\ UNCHANGED wvars
    /\ UNCHANGED cvars
    /\ UNCHANGED pvars
    /\ UNCHANGED evars

NextReEnqueue ==
    \/ Next
    \/ ReEnqueue

SpecReEnqueue == Init /\ [][NextReEnqueue]_vars

\* A worker process dies in the middle of a run and the queue infrastructure
\* puts the job back: the locals of the run are gone, nothing the run had
\* not committed is stored, and the task id is on the list again.
CrashRetry(w) ==
    /\ pc[w] /= "idle"
    /\ enqueued < MaxEnqueues
    /\ Locals(w, "idle", NoTask, "none", 0, 0, NoAnalysis, NULL)
    /\ QueueEnqueue
    /\ UNCHANGED <<task, report, submitted, enqueuing, api_key, sresult>>
    /\ UNCHANGED cvars
    /\ UNCHANGED pvars
    /\ UNCHANGED evars

NextCrashRetry ==
    \/ Next
    \/ \E w \in Workers : CrashRetry(w)

SpecCrashRetry == Init /\ [][NextCrashRetry]_vars

\* Lines 239-249 with the store out of reach: the handler's select or its
\* commit raises; the inner except logs the error and the run returns.
\* Lines 260-264: whatever leaves analyze_repository_async is caught by
\* analyze_repository, so nothing escapes to the queue, which marks a job
\* failed only when its function raises.
Escapes_Always(message) == TRUE
Escapes(message) == FALSE
JobResult(raised) == IF raised THEN "failed" ELSE "finished"
HandlerStoreFails(w) ==
    /\ pc[w] \in {"handler", "handler_commit"}
    /\ Locals(w, "idle", NoTask, "none", 0, 0, NoAnalysis, NULL)
    /\ job_status' = JobResult(Escapes(StoreUnreachable))
    /\ UNCHANGED <<task, report, submitted, enqueuing, enqueued, queue, api_key, sresult>>
    /\ UNCHANGED cvars
    /\ UNCHANGED pvars
    /\ UNCHANGED evars

NextStoreFailure ==
    \/ Next
    \/ \E w \in Workers : HandlerStoreFails(w)

SpecStoreFailure == Init /\ [][NextStoreFailure]_vars

\* Publication, followed from the state a successful run leaves behind: the
\* task completed, its report stored, the job finished, every worker idle.
\* From there the report is touched by publish requests and by delete_task.
InitPublish ==
    /\ \E x \in 1..Len(Texts) :
        /\ task = [status |-> "completed", progress |-> 100,
                   error_message |-> NULL, completed_at |-> "set"]
        /\ report = NewReport(x)
    /\ submitted = TRUE
    /\ enqueuing = FALSE
    /\ enqueued = 1
    /\ queue = <<>>
    /\ job_status = "finished"
    /\ api_key = TRUE
    /\ sresult = "task"
    /\ pc = [w \in Workers |-> "idle"]
    /\ mem = [w \in Workers |-> NoTask]
    /\ fetched = [w \in Workers |-> "none"]
    /\ retry_count = [w \in Workers |-> 0]
    /\ llm_calls = [w \in Workers |-> 0]
    /\ analysis = [w \in Workers |-> NoAnalysis]
    /\ exc = [w \in Workers |-> NULL]
    /\ cpc = [c \in Clients |-> "idle"]
    /\ cmem = [c \in Clients |-> NoTask]
    /\ job_canceled = [c \in Clients |-> FALSE]
    /\ cresult \in [Clients -> {NULL, "None"}]
    /\ cuser \in [Clients -> Users \cup {NULL}]
    /\ \A c \in Clients : cuser[c] = NULL <=> cresult[c] = NULL
    /\ ppc = [p \in Publishers |-> "idle"]
    /\ presult = [p \in Publishers |-> NoResponse]
    /\ publishes = 0
    /\ clock = 0
    /\ epc = "idle"
    /\ markdown_text = <<>>
    /\ scores = {}

NextPublish ==
    \/ \E p \in Publishers : PublishGet(p)
    \/ \E p \in Publishers : PublishCommit(p)
    \/ \E c \in Clients : DeleteGet(c)
    \/ \E c \in Clients : DeleteCommit(c)

SpecPublish == InitPublish /\ [][NextPublish]_vars

\* The Score Extractor on its own: worker.py 287-325 called with a text.
\* Nothing else of the system moves.
InitExtract ==
    /\ task = NoTask
    /\ report = NoReport
    /\ submitted = FALSE
    /\ enqueuing = FALSE
    /\ enqueued = 0
    /\ queue = <<>>
    /\ job_status = "none"
    /\ api_key = TRUE
    /\ sresult = NULL
    /\ pc = [w \in Workers |-> "idle"]
    /\ mem = [w \in Workers |-> NoTask]
    /\ fetched = [w \in Workers |-> "none"]
    /\ retry_count = [w \in Workers |-> 0]
    /\ llm_calls = [w \in Workers |-> 0]
    /\ analysis = [w \in Workers |-> NoAnalysis]
    /\ exc = [w \in Workers |-> NULL]
    /\ cpc = [c \in Clients |-> "idle"]
    /\ cmem = [c \in Clients |-> NoTask]
    /\ job_canceled = [c \in Clients |-> FALSE]
    /\ cresult = [c \in Clients |-> NULL]
    /\ cuser = [c \in Clients |-> NULL]
    /\ ppc = [p \in Publishers |-> "idle"]
    /\ presult = [p \in Publishers |-> NoResponse]
    /\ publishes = 0
    /\ clock = 0
    /\ epc = "call"
    /\ markdown_text \in SampleTexts
    /\ scores = {}

Extract ==
    /\ epc = "call"
    /\ epc' = "return"
    /\ scores' = extract_scores_from_markdown(markdown_text)
    /\ UNCHANGED markdown_text
    /\ UNCHANGED <<task, report, submitted, enqueuing, enqueued, queue, job_status, api_key, sresult>>
    /\ UNCHANGED wvars
    /\ UNCHANGED cvars
    /\ UNCHANGED pvars

NextExtract == Extract

SpecExtract == InitExtract /\ [][NextExtract]_vars

\* ================================================================= claims
HasTask == task /= NoTask
HasReport == report /= NoReport
Running(w) == pc[w] /= "idle"

\* C1: a task row whose status is completed or failed is changed by no step
\* other than its deletion: status, progress, error_message and completed_at
\* stay as they are.
C1_TerminalAbsorbing ==
    [][(HasTask /\ task.status \in Terminal) => (task' = NoTask \/ task' = task)]_vars

\* C2: in every committed state of the task row, progress is 100 exactly
\* when status is completed.
C2_ProgressIffCompleted ==
    HasTask => (task.progress = 100 <=> task.status = "completed")

\* C3: in every committed state of the task row, error_message is non-null
\* exactly when status is failed.
C3_ErrorIffFailed ==
    HasTask => (task.error_message /= NULL <=> task.status = "failed")

\* C4: no two workers execute the pipeline for the same task id at the same
\* time, however often the id was enqueued.
C4_AtMostOneInFlight ==
    \A w1, w2 \in Workers : (Running(w1) /\ Running(w2)) => w1 = w2

\* C5: a cancel_task whose cancel_job found the job already started (it
\* returned False on a started job) returns no task to its caller and leaves
\* the task row as it is.
C5_CancelStartedNoEffect ==
    [][\A c \in Clients :
        (cpc[c] = "cancel_commit" /\ cpc'[c] = "idle" /\ ~job_canceled[c]
            /\ job_status \in {"started", "finished"})
        => (task' = task /\ cresult'[c] /= "task")]_vars

\* C6: deleting the task while its job is executing removes the row and
\* returns True; from then on no worker step brings the task row or a report
\* row back, and the run ends by returning normally to the queue.
C6_DeleteWhileRunning ==
    [][/\ \A c \in Clients :
            (cpc[c] = "delete_commit" /\ cpc'[c] = "idle" /\ job_status = "started")
            => (task' = NoTask /\ report' = NoReport /\ cresult'[c] = "True")
       /\ (submitted /\ ~HasTask) => (task' = NoTask /\ report' = NoReport)
       /\ \A w \in Workers :
            (Running(w) /\ ~HasTask /\ pc'[w] = "idle") => job_status' = "finished"]_vars

\* C6 witness: the task was deleted while its job was executing, and the
\* worker's next commit for it has failed and reached the handler.
C6_Witness ==
    /\ ~HasTask
    /\ job_status = "started"
    /\ \E c \in Clients : cresult[c] = "True"
    /\ \E w \in Workers : pc[w] = "handler" /\ exc[w] = StaleDataError

\* C7: a report row exists only while the task row exists with status
\* completed.
C7_ReportOnlyIfCompleted ==
    HasReport => (HasTask /\ task.status = "completed")

\* C8: a run in which an error occurred, the provider failing on all its
\* attempts included, ends with the task row (if it still exists) in status
\* failed with an error_message.
C8_ErrorEndsFailed ==
    [][\A w \in Workers :
        (Running(w) /\ pc'[w] = "idle" /\ HasTask'
            /\ (exc[w] /= NULL \/ Exhausted(retry_count[w])))
        => (task'.status = "failed" /\ task'.error_message /= NULL)]_vars

\* C9: when the fetch returned no data, empty content or error-flagged
\* content, the run never invokes the Analysis Adapter, its handler leaves
\* the task row (if it still exists) failed with a message naming the fetch,
\* and no step of the run changes the report row.
BadFetch(w) == fetched[w] \in {"no_data", "empty_content", "error_content"}
C9_FetchFailure ==
    [][\A w \in Workers :
        /\ BadFetch(w)' => (llm_calls'[w] = 0 /\ analysis'[w] = NoAnalysis)
        /\ (BadFetch(w) /\ pc[w] = "handler_commit" /\ pc'[w] = "idle" /\ HasTask)
            => (task'.status = "failed"
                /\ task'.error_message \in {FetchFailed, FetchContentFailed})
        /\ (BadFetch(w) /\ pc'[w] /= pc[w]) => report' = report]_vars

\* C9 witness: a run whose fetch returned nothing has ended; the task row is
\* failed with the fetch message and there is no report.
C9_Witness ==
    /\ HasTask
    /\ task.status = "failed"
    /\ task.error_message = FetchFailed
    /\ ~HasReport
    /\ \A w \in Workers : ~Running(w)

\* C10: a run whose fetch and analysis both succeeded ends with the task row
\* completed at progress 100 and a report row whose id is the task id and
\* whose scores hold an overall entry.
C10_SuccessHasOverall ==
    [][\A w \in Workers :
        (pc[w] = "persist" /\ pc'[w] = "idle" /\ ~Exhausted(retry_count[w]))
        => (/\ task'.status = "completed"
            /\ task'.progress = 100
            /\ report'.id = TaskId
            /\ HasKey(report'.scores, "overall"))]_vars

\* C11: when the queue cannot be reached at enqueue time, submit_analysis
\* fails; the failing step leaves the task row as it was committed, nothing
\* is put in the queue, and from then on the row stays at progress 0 and
\* never becomes in_progress or completed; the only status other than
\* pending it can take is the failed written by a cancel request.
C11_EnqueueFailureLeavesPending ==
    [][sresult' = "error" =>
        /\ (sresult /= "error" => task' = task)
        /\ queue' = <<>> /\ job_status' = "none"
        /\ \A w \in Workers : ~Running(w)'
        /\ HasTask' => /\ task'.progress = 0
                       /\ task'.status \in {"pending", "failed"}
                       /\ task'.status = "failed" => task'.error_message = CanceledByUser]_vars

\* C11 witness: the submission has failed at the enqueue and the task row is
\* there, pending at progress 0.
C11_Witness ==
    /\ sresult = "error"
    /\ HasTask
    /\ task.status = "pending"
    /\ task.progress = 0

\* C12: completed_at is null exactly while the task row is pending or
\* in_progress, and non-null in every state where it is completed or failed.
C12_CompletedAtIffTerminal ==
    HasTask => (task.completed_at /= NULL <=> task.status \in Terminal)

\* C13: cancel_job returns True only for a job it found queued, and that job
\* is then cancelled and executed by no worker: while the job is marked
\* canceled its id is not on the list and no worker runs it.  A job that is
\* missing, started or finished makes cancel_job return False and is left
\* as it is.
C13_CancelJob ==
    [][/\ \A c \in Clients :
            (cpc[c] \in {"cancel_job", "delete_job"} /\ cpc'[c] /= cpc[c] /\ ~Cancellable(job_status))
            => (~job_canceled'[c] /\ job_status' = job_status /\ queue' = queue
                /\ cpc'[c] \in {"cancel_commit", "delete_commit"})
       /\ \A c \in Clients : (job_canceled'[c] /\ ~job_canceled[c]) => job_status' = "canceled"
       /\ job_status' = "canceled" => (queue' = <<>> /\ \A w \in Workers : ~Running(w)')]_vars

\* C14: a publish request that finds the report already published makes no
\* publish call and writes nothing, and returns the hash and published_at
\* the report holds; and a hash, once set, stays the one the first
\* successful publication set for as long as the report exists.
C14_PublishIdempotent ==
    [][/\ \A p \in Publishers :
            (/\ ppc[p] = "idle" /\ HasReport /\ report.ipfs_hash /= Unset
             /\ <<ppc[p], presult[p]>>' /= <<ppc[p], presult[p]>>)
            => (/\ ppc'[p] = "idle"
                /\ report' = report
                /\ publishes' = publishes /\ clock' = clock
                /\ presult'[p] = Response("200", report.ipfs_hash, report.published_at))
       /\ (HasReport /\ report.ipfs_hash /= Unset /\ HasReport')
            => report'.ipfs_hash = report.ipfs_hash]_vars

\* C14 witness: one request went on to publish and wrote the hash, and a
\* second request was answered with that hash and published_at.
C14_Witness ==
    /\ HasReport /\ report.ipfs_hash /= Unset
    /\ publishes = 1 /\ clock = 1
    /\ \E p1, p2 \in Publishers :
        /\ p1 /= p2
        /\ presult[p1] = ReportSummary(report)
        /\ presult[p2] = ReportSummary(report)

\* C15: for every text the Score Extractor returns a mapping that holds an
\* overall entry, and for a text in which no score is found the mapping is
\* exactly {overall: 0}.
NoRowMatches(text) ==
    \A c \in 1..Len(Categories) : FirstPattern(patterns[Categories[c]], text, 1) = <<>>
C15_AlwaysOverall ==
    epc = "return" =>
        /\ HasKey(scores, "overall")
        /\ NoRowMatches(markdown_text) => scores = {<<"overall", 0>>}

\* C16: when the returned mapping holds category scores and the text has no
\* line naming an overall, total or final value, the mapping holds an
\* overall entry equal to the arithmetic mean of the category scores.
RECURSIVE SumOf(_)
SumOf(m) ==
    IF m = {} THEN 0
    ELSE LET e == CHOOSE x \in m : TRUE IN e[2] + SumOf(m \ {e})
CategoryScores(m) == {e \in m : e[1] /= "overall"}
NamesOverall(text) ==
    \E i \in 1..Len(text) : \E j \in 1..Len(text[i]) :
        text[i][j].k = "w" /\ text[i][j].w \in {"overall", "total", "final"}
C16_OverallIsMean ==
    (epc = "return" /\ CategoryScores(scores) /= {} /\ ~NamesOverall(markdown_text)) =>
        \E e \in scores :
            /\ e[1] = "overall"
            /\ e[2] * Cardinality(CategoryScores(scores)) = SumOf(CategoryScores(scores))

\* C17: for a text made of table rows '<label> | <n>/10 |' with distinct
\* labels, the returned mapping is exactly one entry per row: the row's
\* label with the row's n.
IsTableRow(line) ==
    /\ Len(line) = 6
    /\ line[1].k = "w" /\ line[2] = W("|") /\ line[3].k = "n"
    /\ line[4] = W("/") /\ line[5] = N(100) /\ line[6] = W("|")
IsTable(text) ==
    /\ text /= <<>>
    /\ \A i \in 1..Len(text) : IsTableRow(text[i])
    /\ \A i, j \in 1..Len(text) : text[i][1] = text[j][1] => i = j
C17_TableRows ==
    (epc = "return" /\ IsTable(markdown_text)) =>
        scores = {<<markdown_text[i][1].w, markdown_text[i][3].n>> : i \in 1..Len(markdown_text)}

\* C18: within one run of the pipeline the progress values the worker
\* commits are 10, then 40, then 80, then 100: each write of progress is the
\* next value after the one the worker committed last, and the progress of
\* the task row never goes down.
C18_ProgressMonotone ==
    [][/\ \A w \in Workers :
            (pc'[w] /= pc[w] /\ HasTask' /\ task'.progress /= task.progress)
            => (/\ task'.progress > mem[w].progress
                /\ <<mem[w].progress, task'.progress>> \in
                        {<<0, 10>>, <<10, 40>>, <<40, 80>>, <<80, 100>>})
       /\ (HasTask /\ HasTask') => task'.progress >= task.progress]_vars

\* C18 witness: a run has committed all four values and ended.
C18_Witness ==
    /\ HasTask /\ task.progress = 100
    /\ \A w \in Workers : ~Running(w)

\* C19: a worker that starts a job whose task row does not exist ends the
\* run at once: no fetch, no analysis, the task and report rows stay as they
\* are (absent), and the job ends as finished, not as failed.
C19_MissingTaskAborts ==
    [][\A w \in Workers :
        (pc[w] = "claim" /\ ~HasTask /\ pc'[w] /= pc[w])
        => (/\ pc'[w] = "idle"
            /\ task' = NoTask /\ report' = NoReport
            /\ fetched'[w] = "none" /\ llm_calls'[w] = 0 /\ analysis'[w] = NoAnalysis
            /\ job_status' = "finished")]_vars

\* C19 witness: a worker has popped the job and is about to load the task,
\* which was deleted after it was enqueued.
C19_Witness ==
    /\ ~HasTask /\ submitted
    /\ \E w \in Workers : pc[w] = "claim"

\* C20: when no credential is configured, no run invokes the Analysis
\* Adapter; a run that reaches the credential check raises the missing-
\* credential failure there, and its handler leaves the task row (if it
\* still exists) failed with that message.
C20_NoCredentialFailsFast ==
    [][\A w \in Workers :
        /\ ~api_key => (llm_calls'[w] = 0 /\ pc'[w] /= "invoke" /\ analysis'[w] = NoAnalysis)
        /\ (~api_key /\ pc[w] = "analyze" /\ pc'[w] /= pc[w] /\ ~DigestRejected(fetched[w]))
            => (pc'[w] = "handler" /\ exc'[w] = KeyNotConfigured)
        /\ (exc[w] = KeyNotConfigured /\ pc[w] = "handler_commit" /\ pc'[w] = "idle" /\ HasTask)
            => (task'.status = "failed" /\ task'.error_message = KeyNotConfigured)]_vars

\* C20 witness: a run without a credential has ended and the task row is
\* failed with the missing-credential message.
C20_Witness ==
    /\ ~api_key
    /\ HasTask /\ task.status = "failed" /\ task.error_message = KeyNotConfigured
    /\ \A w \in Workers : ~Running(w)

\* C21: the handler of a failed run leaves the task row, if it still exists,
\* in status failed with the exception's message; and no worker step puts a
\* job on the queue or starts a run other than by popping a job: a worker
\* enters the pipeline only from idle, taking one id off the list.
C21_HandlerRecordsNoRetry ==
    [][\A w \in Workers :
        /\ (pc[w] = "handler_commit" /\ pc'[w] = "idle" /\ HasTask)
            => (task'.status = "failed" /\ task'.error_message = exc[w])
        /\ pc'[w] /= pc[w]
            => (/\ enqueued' = enqueued
                /\ pc'[w] = "claim" => (pc[w] = "idle" /\ queue /= <<>> /\ queue' = Tail(queue))
                /\ pc'[w] /= "claim" => queue' = queue)]_vars

\* C21 witness: a run failed in the analysis, its handler has recorded the
\* failure and the worker is idle again; the job was enqueued once.
C21_Witness ==
    /\ HasTask /\ task.status = "failed" /\ task.error_message = LLMFailed
    /\ enqueued = 1 /\ queue = <<>>
    /\ \A w \in Workers : ~Running(w)

\* C22: a run that is in its handler ends by returning normally to the
\* queue, which records the job as finished, also when the handler's select
\* or commit fails; the task row is then left as it was.
C22_HandlerNeverRaises ==
    [][\A w \in Workers :
        (pc[w] \in {"handler", "handler_commit"} /\ pc'[w] /= pc[w] /\ pc'[w] /= "handler_commit")
        => (/\ pc'[w] = "idle"
            /\ job_status' = "finished"
            /\ task' = task \/ (task'.status = "failed" /\ task'.error_message = exc[w]))]_vars

\* C22 witness: a run has ended while the store was out of reach for its
\* handler: the job is finished and the task row is still in_progress.
C22_Witness ==
    /\ HasTask /\ task.status = "in_progress"
    /\ job_status = "finished"
    /\ \A w \in Workers : ~Running(w)

C24_RerunSameOutcome ==
    [][\A w \in Workers :
        /\ (pc[w] = "claim" /\ HasTask /\ pc'[w] /= pc[w] /\ enqueued' = enqueued)
            => (pc'[w] = "fetch" /\ task'.status = "in_progress" /\ task'.progress = 10)
        /\ (pc[w] = "persist" /\ HasTask /\ pc'[w] /= pc[w] /\ enqueued' = enqueued)
            => (/\ pc'[w] = "idle"
                /\ task'.status = "completed"
                /\ report'.id = TaskId /\ report'.text = analysis[w])
        /\ (pc[w] = "handler_commit" /\ HasTask /\ pc'[w] /= pc[w] /\ enqueued' = enqueued)
            => (/\ task'.status = "failed" /\ task'.error_message = exc[w]
                /\ exc[w] \in {FetchRaised, FetchFailed, FetchContentFailed,
                               KeyNotConfigured, LLMFailed})]_vars

\* C24 witness: the first run crashed after it had committed progress, the
\* job was run again and that run has completed the task and stored its
\* report.
C24_Witness ==
    /\ enqueued = 2
    /\ HasTask /\ task.status = "completed" /\ HasReport
    /\ \A w \in Workers : ~Running(w)

\* C25: within one run the stages follow one another in the order fetch,
\* analyze, extract, persist.  A run moves from the claim to the fetch, from
\* the fetch to the analysis, from the analysis to the persist step and
\* never back; the Analysis Adapter is called only by a run whose fetch
\* returned non-empty content; the report, with the scores extracted from
\* the analysis, and the completed status are written only by a run whose
\* Analysis Adapter has returned, and the report holds that analysis.
NonEmptyContent == {"content", "error_content"}

C25_StagesInOrder ==
    [][/\ \A w \in Workers :
          /\ pc'[w] /= pc[w] =>
                /\ pc'[w] = "fetch" => pc[w] = "claim"
                /\ pc'[w] = "analyze" => pc[w] = "fetch"
                /\ pc'[w] = "invoke" => pc[w] = "analyze"
                /\ pc'[w] = "persist" => pc[w] = "invoke"
          /\ llm_calls'[w] > llm_calls[w] =>
                (pc[w] = "invoke" /\ fetched[w] \in NonEmptyContent)
       /\ ((report' /= report /\ report' /= NoReport)
            \/ (HasTask /\ task.status /= "completed" /\ task'.status = "completed"))
          => \E w \in Workers :
                /\ pc[w] = "persist" /\ pc'[w] = "idle"
                /\ fetched[w] \in NonEmptyContent
                /\ llm_calls[w] >= 1 /\ analysis[w] /= NoAnalysis
                /\ report' = NewReport(analysis[w])
                /\ task'.status = "completed"]_vars

\* C25 witness: a run whose adapter failed twice and then returned has
\* reached the persist step.
C25_Witness ==
    \E w \in Workers :
        /\ pc[w] = "persist" /\ fetched[w] = "content"
        /\ llm_calls[w] = 3 /\ analysis[w] /= NoAnalysis /\ analysis[w] /= ErrorTextId

\* C26: delete_task asks the queue to cancel the job exactly when the task
\* it loaded is pending or in_progress, goes on to the removal whatever the
\* cancel attempt found, and the removal takes the task and its report
\* together and answers True; in every state a stored report belongs to a
\* stored task.
C26_DeleteCancelsThenRemoves ==
    /\ [](HasReport => (HasTask /\ report.task_id = TaskId))
    /\ [][\A c \in Clients :
            /\ (cpc[c] = "idle" /\ cpc'[c] = "delete_job")
                => task.status \in {"pending", "in_progress"}
            /\ (cpc[c] = "idle" /\ cpc'[c] = "delete_commit")
                => (HasTask /\ task.status \notin {"pending", "in_progress"})
            /\ (cpc[c] \in {"delete_job", "delete_job_cancel"} /\ cpc'[c] /= cpc[c])
                => (/\ cpc'[c] \in {"delete_job_cancel", "delete_commit"}
                    /\ task' = task /\ report' = report)
            /\ (cpc[c] = "delete_commit" /\ cpc'[c] /= cpc[c])
                => (/\ task' = NoTask /\ report' = NoReport
                    /\ cpc'[c] = "idle" /\ cresult'[c] = "True")]_vars

\* C26 witness: delete_task loaded the task in_progress, its cancel attempt
\* returned False because the job had started, the run has stored its
\* report in the meantime, and the removal is the request's next step.
C26_Witness ==
    \E c \in Clients :
        /\ cpc[c] = "delete_commit"
        /\ cmem[c].status = "in_progress" /\ ~job_canceled[c]
        /\ HasTask /\ task.status = "completed" /\ HasReport

\* C27: a get_task, cancel_task or delete_task request that comes with a
\* user id other than the task's owner is answered None (False by
\* delete_task) at once, performs no queue operation and leaves the task,
\* the report, the job and the list as they are.
C27_PerUserIsolation ==
    [][\A c \in Clients :
        (/\ cpc[c] = "idle"
         /\ cuser'[c] \in Users \ {Owner}
         /\ <<cpc[c], cresult[c], cuser[c]>>' /= <<cpc[c], cresult[c], cuser[c]>>)
        => (/\ cpc'[c] = "idle"
            /\ cresult'[c] \in {"None", "False"}
            /\ UNCHANGED <<task, report, queue, job_status, enqueued>>)]_vars

\* C27 witness: a delete_task by another user was answered False while the
\* owner's task is pending and its job queued, and both are still there.
C27_Witness ==
    /\ HasTask /\ task.status = "pending"
    /\ job_status = "queued" /\ queue = <<TaskId>>
    /\ \E c \in Clients :
        cpc[c] = "idle" /\ cuser[c] /= NULL /\ cuser[c] /= Owner /\ cresult[c] = "False"

\* C28: analyze_single_repository calls the chain at most MAX_RETRIES times
\* in a run.  A call that returns ends the loop with the text it returned; a
\* call that fails before the last one leaves the loop running; the failure
\* of call MAX_RETRIES ends the loop by returning a text that starts with
\* "Error:", and is not raised.
StartsWithError(text) ==
    /\ text /= <<>> /\ Len(text[1]) >= 2
    /\ text[1][1] = W("error") /\ text[1][2] = W(":")

C28_RetryLoopBounded ==
    /\ [](\A w \in Workers :
            /\ llm_calls[w] <= MAX_RETRIES
            /\ retry_count[w] <= llm_calls[w])
    /\ [][\A w \in Workers : llm_calls'[w] > llm_calls[w] =>
            /\ llm_calls'[w] = llm_calls[w] + 1
            /\ retry_count'[w] = retry_count[w]
                => (analysis'[w] \in AdapterTexts /\ pc'[w] /= "invoke")
            /\ (retry_count'[w] > retry_count[w] /\ retry_count'[w] < MAX_RETRIES)
                => (pc'[w] = "invoke" /\ analysis'[w] = NoAnalysis /\ exc'[w] = NULL)
            /\ (retry_count'[w] > retry_count[w] /\ retry_count'[w] >= MAX_RETRIES)
                => (/\ llm_calls'[w] = MAX_RETRIES
                    /\ analysis'[w] = ErrorTextId
                    /\ StartsWithError(Texts[analysis'[w]])
                    /\ pc'[w] /= "invoke"
                    /\ exc'[w] /= LLMFailed)]_vars

\* C28 witness: the chain failed MAX_RETRIES times and the run goes on to
\* the persist step with the "Error:" text as its analysis.
C28_Witness ==
    \E w \in Workers :
        /\ llm_calls[w] = MAX_RETRIES /\ retry_count[w] = MAX_RETRIES
        /\ analysis[w] = ErrorTextId /\ pc[w] = "persist"

\* C29: a publication for which the IPFS service returned no hash writes
\* nothing: the request ends with no hash and the stored report is what it
\* was.  In every state the report has an ipfs_hash exactly when it has a
\* published_at.
C29_FailedPublicationWritesNothing ==
    /\ [](HasReport => (report.ipfs_hash = Unset <=> report.published_at = Unset))
    /\ [][\A p \in Publishers :
            (ppc[p] = "publish" /\ ppc'[p] = "idle" /\ presult'[p].ipfs_hash = Unset)
            => (report' = report /\ clock' = clock)]_vars

\* C29 witness: a request went on to publish_to_ipfs, the IPFS service
\* returned nothing, and the report is stored without hash and without
\* publication time.
C29_Witness ==
    /\ HasReport /\ report.ipfs_hash = Unset /\ report.published_at = Unset
    /\ publishes >= 1
    /\ \E p \in Publishers : ppc[p] = "idle" /\ presult[p] = Response("200", Unset, Unset)
    /\ \A p \in Publishers : ppc[p] = "idle"

\* C30: a pending task has progress 0 and an in_progress task has progress
\* 10, 40 or 80.  The status becomes pending only when the task is created,
\* and becomes in_progress only by the claim step of a run, which stores
\* progress 10 with it.
C30_StatusProgressPairing ==
    /\ [](HasTask =>
            (/\ task.status = "pending" => task.progress = 0
             /\ task.status = "in_progress" => task.progress \in {10, 40, 80}))
    /\ [][/\ (task'.status = "pending" /\ task.status /= "pending")
              => (task = NoTask /\ ~submitted /\ task'.progress = 0)
          /\ (task'.status = "in_progress" /\ task.status /= "in_progress")
              => (/\ task'.progress = 10
                  /\ \E w \in Workers : pc[w] = "claim" /\ pc'[w] = "fetch")]_vars

\* C30 witness: a run crashed after the task had been claimed, the job was
\* run again and its claim step has stored in_progress with progress 10.
C30_Witness ==
    /\ HasTask /\ task.status = "in_progress" /\ task.progress = 10
    /\ enqueued = 2 /\ queue = <<>>
    /\ \E w \in Workers : pc[w] = "fetch"

====
